---- MODULE Spec2Model ----
(***************************************************************************)
(* Credential resolution and environment classification of the agent       *)
(* initializer, authentication test and diagnostic scripts.                *)
(*                                                                         *)
(* One run of one script is modelled: the process environment is drawn in  *)
(* Init, every external call (credential constructors, token probes,       *)
(* client construction, agent and thread API calls, the `az --version`     *)
(* subprocess) is a step whose outcome is chosen nondeterministically, and *)
(* `calls` records the calls in the order the script makes them.           *)
(***************************************************************************)
EXTENDS Integers, Sequences, FiniteSets, TLC

VARIABLES
    script,              \* which script this process runs
    pc,                  \* position in the script
    env,                 \* os.environ: name -> [isSet, val]
    path_exists,         \* os.path.exists('/opt/microsoft')
    prompt_exists,       \* the prompt file of an initializer can be opened
    libs_ok,             \* the azure packages can be imported
    is_local_auth,       \* the parsed boolean preference
    is_local_auth_lc,    \* diagnose_auth: the lowercased raw value
    in_azure,            \* the diagnostic scripts' classification
    azure_cli_available, \* diagnose_auth: result of check_azure_cli()
    project_client,      \* credential the client is built on, or "none"
    agent_exists,        \* the initializers' agent_exists flag
    calls,               \* external calls made so far, in order
    out,                 \* lines printed so far, in order
    uncaught,            \* exception that left the script uncaught, or "none"
    exit_code            \* "running", "0" or "1"

vars == <<script, pc, env, path_exists, prompt_exists, libs_ok, is_local_auth,
          is_local_auth_lc, in_azure, azure_cli_available, project_client,
          agent_exists, calls, out, uncaught, exit_code>>

----------------------------------------------------------------------------
(* Bounds *)

\* At most this many platform signals are switched on in one environment.
MaxSignals == 2

----------------------------------------------------------------------------
(* Strings are sequences of one-character strings, so that str.lower() and *)
(* string comparison are computed rather than assumed.                     *)

S_empty == << >>
S_true  == <<"t", "r", "u", "e">>
S_True  == <<"T", "r", "u", "e">>
S_TRUE  == <<"T", "R", "U", "E">>
S_false == <<"f", "a", "l", "s", "e">>
S_False == <<"F", "a", "l", "s", "e">>
S_yes   == <<"y", "e", "s">>
S_x     == <<"x">>

LowerChar(c) ==
    CASE c = "T" -> "t"
      [] c = "R" -> "r"
      [] c = "U" -> "u"
      [] c = "E" -> "e"
      [] c = "F" -> "f"
      [] OTHER   -> c

Lower(s) == [i \in 1..Len(s) |-> LowerChar(s[i])]

Unset  == [isSet |-> FALSE, val |-> S_empty]
Set(s) == [isSet |-> TRUE, val |-> s]

\* os.getenv(name, default)
Getenv(name, default) == IF env[name].isSet THEN env[name].val ELSE default

\* truthiness of os.getenv(name): None and '' are falsy
Truthy(name) == env[name].isSet /\ Len(env[name].val) > 0

----------------------------------------------------------------------------
(* Scripts and their environment *)

Initializers == {"interiorDesignAgent", "inventoryAgent", "shopperAgent"}
Resolvers    == Initializers \cup {"test_auth_standalone"}
Diagnostics  == {"diagnose_auth", "emergency_auth_diagnostic"}
Scripts      == Resolvers \cup Diagnostics

\* the initializers that read a per-agent id variable
Upserters == {"interiorDesignAgent", "inventoryAgent"}

AgentVar(s) ==
    CASE s = "interiorDesignAgent" -> "interior_designer"
      [] s = "inventoryAgent"      -> "inventory_agent"
      [] OTHER                     -> "none"

SignalVars == {"WEBSITE_HOSTNAME", "CONTAINER_APP_NAME", "AKS_NODE_NAME",
               "MSI_ENDPOINT", "IDENTITY_ENDPOINT"}

ConfigVars == {"AZURE_AI_AGENT_ENDPOINT", "AZURE_AI_AGENT_MODEL_DEPLOYMENT_NAME",
               "IS_LOCAL_AUTH", "interior_designer", "inventory_agent"}

EnvVars == SignalVars \cup ConfigVars

IsLocalAuthValues ==
    {Unset, Set(S_empty), Set(S_true), Set(S_True), Set(S_TRUE),
     Set(S_false), Set(S_False), Set(S_yes)}

PresenceValues == {Unset, Set(S_empty), Set(S_x)}

\* the preference parsed with the default on the wrong side
IsLocalAuthDefaultTrue == Lower(Getenv("IS_LOCAL_AUTH", S_true)) = S_true

\* is_local_auth = os.getenv("IS_LOCAL_AUTH", "false").lower() == "true"
IsLocalAuth == Lower(Getenv("IS_LOCAL_AUTH", S_false)) = S_true

----------------------------------------------------------------------------
(* External calls *)

Call(op, cred, res) == [op |-> op, cred |-> cred, res |-> res]

NetworkOps == {"get_token", "get_agent", "update_agent", "create_agent",
               "threads.create", "threads.delete"}

\* outcomes of a token probe: success, CredentialUnavailableError, other Exception
ProbeOutcomes == {"ok", "unavailable", "error"}

\* outcomes of any other remote or constructor call
CallOutcomes == {"ok", "error"}

Ops(log) == {log[i].op : i \in 1..Len(log)}

Made(log, op) == op \in Ops(log)

----------------------------------------------------------------------------
(* Process termination *)

\* an exception leaves the script uncaught: the interpreter exits 1
Abort(exc) ==
    /\ pc' = "exited"
    /\ uncaught' = exc
    /\ exit_code' = "1"

\* the script runs off its end (or calls sys.exit) with this status
Finish(status) ==
    /\ pc' = "exited"
    /\ uncaught' = "none"
    /\ exit_code' = status

Inputs == <<script, env, path_exists, prompt_exists, libs_ok>>

----------------------------------------------------------------------------
(* Initial states: one script about to start in some environment *)

BaseEnv == [v \in EnvVars |-> Unset]

ResolverInit ==
    /\ script \in Resolvers
    /\ path_exists = FALSE
    /\ prompt_exists \in (IF script \in Initializers THEN BOOLEAN ELSE {TRUE})
    /\ libs_ok \in BOOLEAN
    /\ \E ep \in PresenceValues, model \in {Unset, Set(S_x)},
          aid \in PresenceValues, la \in IsLocalAuthValues :
          /\ script \notin Upserters => aid = Unset
          /\ script = "test_auth_standalone" => model = Unset
          /\ env = [BaseEnv EXCEPT
                      !["AZURE_AI_AGENT_ENDPOINT"] = ep,
                      !["AZURE_AI_AGENT_MODEL_DEPLOYMENT_NAME"] = model,
                      ![IF script \in Upserters THEN AgentVar(script)
                                                ELSE "interior_designer"] = aid,
                      !["IS_LOCAL_AUTH"] = la]

\* the environments of the diagnostic scripts: every choice of at most
\* MaxSignals platform signals, each environment signal empty or non-empty
DiagnosticInit ==
    /\ script \in Diagnostics
    /\ prompt_exists = TRUE
    /\ libs_ok \in BOOLEAN
    /\ script = "diagnose_auth" => libs_ok = TRUE
    /\ \E on \in SUBSET SignalVars, la \in IsLocalAuthValues :
          /\ path_exists \in BOOLEAN
          /\ Cardinality(on) + (IF path_exists THEN 1 ELSE 0) <= MaxSignals
          /\ \E vals \in [on -> {Set(S_empty), Set(S_x)}] :
                env = [v \in EnvVars |->
                          IF v \in on THEN vals[v]
                          ELSE IF v = "IS_LOCAL_AUTH" THEN la ELSE Unset]

Init ==
    /\ pc = "start"
    /\ is_local_auth = FALSE
    /\ is_local_auth_lc = S_empty
    /\ in_azure = FALSE
    /\ azure_cli_available = FALSE
    /\ project_client = "none"
    /\ agent_exists = FALSE
    /\ calls = << >>
    /\ out = << >>
    /\ uncaught = "none"
    /\ exit_code = "running"
    /\ (ResolverInit \/ DiagnosticInit)

----------------------------------------------------------------------------
(* Credential resolution, shared by the three initializers and the         *)
(* authentication test                                                     *)

\* a handler that names CredentialUnavailableError alone
CatchesUnavailableOnly(exc) == exc = "unavailable"

\* except (Exception, CredentialUnavailableError): both probe failures are
\* subclasses of Exception, so the handler catches either
CatchesLocalFailure(exc) == exc \in {"unavailable", "error"}

\* try: AzureCliCredential(); credential.get_token(scope)
LocalProbe ==
    /\ pc = "auth"
    /\ script \in Resolvers
    /\ is_local_auth
    /\ \E r \in ProbeOutcomes :
          /\ calls' = calls \o <<Call("AzureCliCredential", "cli", "ok"),
                                 Call("get_token", "cli", r)>>
          /\ IF r = "ok"
             THEN /\ pc' = "local_client"
                  /\ UNCHANGED <<uncaught, exit_code>>
             ELSE IF CatchesLocalFailure(r)
             THEN /\ pc' = "fallback"
                  /\ UNCHANGED <<uncaught, exit_code>>
             ELSE Abort(r)
    /\ UNCHANGED <<Inputs, is_local_auth, is_local_auth_lc, in_azure,
                   azure_cli_available, project_client, agent_exists, out>>

\* still inside the try block: AIProjectClient(endpoint, credential)
LocalClient ==
    /\ pc = "local_client"
    /\ script \in Resolvers
    /\ \E r \in CallOutcomes :
          /\ calls' = Append(calls, Call("AIProjectClient", "cli", r))
          /\ IF r = "ok"
             THEN /\ project_client' = "cli"
                  /\ out' = Append(out, "Using AzureCliCredential")
                  /\ pc' = "api"
                  /\ UNCHANGED <<uncaught, exit_code>>
             ELSE IF CatchesLocalFailure(r)
             THEN /\ pc' = "fallback"
                  /\ UNCHANGED <<project_client, out, uncaught, exit_code>>
             ELSE /\ Abort(r)
                  /\ UNCHANGED <<project_client, out>>
    /\ UNCHANGED <<Inputs, is_local_auth, is_local_auth_lc, in_azure,
                   azure_cli_available, agent_exists>>

----------------------------------------------------------------------------
(* The agent initializers *)

\* imports and the prompt file read at the top of the module
InitializerLoad ==
    /\ pc = "start"
    /\ script \in Initializers
    /\ IF ~libs_ok THEN Abort("ImportError")
       ELSE IF ~prompt_exists THEN Abort("FileNotFoundError")
       ELSE /\ pc' = "read_env"
            /\ UNCHANGED <<uncaught, exit_code>>
    /\ UNCHANGED <<Inputs, is_local_auth, is_local_auth_lc, in_azure,
                   azure_cli_available, project_client, agent_exists, calls, out>>

\* os.environ[...] raises KeyError on an unset variable
InitializerReadEnv ==
    /\ pc = "read_env"
    /\ script \in Initializers
    /\ IF ~env["AZURE_AI_AGENT_ENDPOINT"].isSet THEN
            /\ Abort("KeyError")
            /\ UNCHANGED is_local_auth
       ELSE IF script \in Upserters /\ ~env[AgentVar(script)].isSet THEN
            /\ Abort("KeyError")
            /\ UNCHANGED is_local_auth
       ELSE /\ is_local_auth' = IsLocalAuth
            /\ pc' = "auth"
            /\ UNCHANGED <<uncaught, exit_code>>
    /\ UNCHANGED <<Inputs, is_local_auth_lc, in_azure, azure_cli_available,
                   project_client, agent_exists, calls, out>>

\* the except branch with the fallback credential probed as well, the way
\* the authentication test does it
InitializerFallbackWithProbe ==
    /\ pc = "fallback"
    /\ script \in Initializers
    /\ \E r \in CallOutcomes :
          /\ calls' = calls \o <<Call("DefaultAzureCredential", "default", "ok"),
                                 Call("get_token", "default", r),
                                 Call("AIProjectClient", "default", r)>>
          /\ out' = Append(out, "AzureCliCredential failed. Falling back to DefaultAzureCredential")
          /\ IF r = "ok"
             THEN /\ project_client' = "default"
                  /\ pc' = "api"
                  /\ UNCHANGED <<uncaught, exit_code>>
             ELSE /\ Abort("platform_default")
                  /\ UNCHANGED project_client
    /\ UNCHANGED <<Inputs, is_local_auth, is_local_auth_lc, in_azure,
                   azure_cli_available, agent_exists>>

\* the except branch: AIProjectClient(endpoint, DefaultAzureCredential())
InitializerFallback ==
    /\ pc = "fallback"
    /\ script \in Initializers
    /\ \E r \in CallOutcomes :
          /\ calls' = calls \o <<Call("DefaultAzureCredential", "default", "ok"),
                                 Call("AIProjectClient", "default", r)>>
          /\ out' = Append(out, "AzureCliCredential failed. Falling back to DefaultAzureCredential")
          /\ IF r = "ok"
             THEN /\ project_client' = "default"
                  /\ pc' = "api"
                  /\ UNCHANGED <<uncaught, exit_code>>
             ELSE /\ Abort("platform_default")
                  /\ UNCHANGED project_client
    /\ UNCHANGED <<Inputs, is_local_auth, is_local_auth_lc, in_azure,
                   azure_cli_available, agent_exists>>

\* the else branch: AIProjectClient(endpoint, DefaultAzureCredential())
InitializerDefault ==
    /\ pc = "auth"
    /\ script \in Initializers
    /\ ~is_local_auth
    /\ \E r \in CallOutcomes :
          /\ calls' = calls \o <<Call("DefaultAzureCredential", "default", "ok"),
                                 Call("AIProjectClient", "default", r)>>
          /\ out' = Append(out, "Using DefaultAzureCredential for Azure deployment authentication")
          /\ IF r = "ok"
             THEN /\ project_client' = "default"
                  /\ pc' = "api"
                  /\ UNCHANGED <<uncaught, exit_code>>
             ELSE /\ Abort("platform_default")
                  /\ UNCHANGED project_client
    /\ UNCHANGED <<Inputs, is_local_auth, is_local_auth_lc, in_azure,
                   azure_cli_available, agent_exists>>

\* if agent_id: agent = get_agent(agent_id); agent_exists = True
HasAgentId == script \in Upserters /\ Truthy(AgentVar(script))

GetAgent ==
    /\ pc = "api"
    /\ script \in Upserters
    /\ IF HasAgentId
       THEN \E r \in CallOutcomes :
               /\ calls' = Append(calls, Call("get_agent", project_client, r))
               /\ IF r = "ok"
                  THEN /\ agent_exists' = TRUE
                       /\ out' = Append(out, "Retrieved existing agent")
                       /\ pc' = "upsert"
                       /\ UNCHANGED <<uncaught, exit_code>>
                  ELSE /\ Abort("remote")
                       /\ UNCHANGED <<agent_exists, out>>
       ELSE /\ pc' = "upsert"
            /\ UNCHANGED <<agent_exists, calls, out, uncaught, exit_code>>
    /\ UNCHANGED <<Inputs, is_local_auth, is_local_auth_lc, in_azure,
                   azure_cli_available, project_client>>

\* the argument os.environ["AZURE_AI_AGENT_MODEL_DEPLOYMENT_NAME"] is
\* evaluated before the call is made
AgentCall(op, msg) ==
    IF ~env["AZURE_AI_AGENT_MODEL_DEPLOYMENT_NAME"].isSet THEN
         /\ Abort("KeyError")
         /\ UNCHANGED <<calls, out>>
    ELSE \E r \in CallOutcomes :
         /\ calls' = Append(calls, Call(op, project_client, r))
         /\ IF r = "ok"
            THEN /\ out' = Append(out, msg)
                 /\ Finish("0")
            ELSE /\ Abort("remote")
                 /\ UNCHANGED out

UpdateAgent ==
    /\ pc = "upsert"
    /\ script \in Upserters
    /\ agent_exists
    /\ AgentCall("update_agent", "Updated agent")
    /\ UNCHANGED <<Inputs, is_local_auth, is_local_auth_lc, in_azure,
                   azure_cli_available, project_client, agent_exists>>

CreateAgent ==
    /\ \/ pc = "upsert" /\ script \in Upserters /\ ~agent_exists
       \/ pc = "api" /\ script = "shopperAgent"
    /\ AgentCall("create_agent", "Created agent")
    /\ UNCHANGED <<Inputs, is_local_auth, is_local_auth_lc, in_azure,
                   azure_cli_available, project_client, agent_exists>>

----------------------------------------------------------------------------
(* test_auth_standalone.py *)

\* an exit status that ignores the result of test_authentication()
ExitStatusAlwaysZero(success) == "0"

\* sys.exit(0 if success else 1)
ExitStatus(success) == IF success THEN "0" ELSE "1"

\* test_authentication() returns and __main__ exits with its status
Return(success) == Finish(ExitStatus(success))

TestReadEnv ==
    /\ pc = "start"
    /\ script = "test_auth_standalone"
    /\ is_local_auth' = IsLocalAuth
    /\ IF ~Truthy("AZURE_AI_AGENT_ENDPOINT")
       THEN /\ out' = Append(out, "ERROR: AZURE_AI_AGENT_ENDPOINT is not set")
            /\ Return(FALSE)
       ELSE /\ pc' = "import"
            /\ UNCHANGED <<out, uncaught, exit_code>>
    /\ UNCHANGED <<Inputs, is_local_auth_lc, in_azure, azure_cli_available,
                   project_client, agent_exists, calls>>

TestImport ==
    /\ pc = "import"
    /\ script = "test_auth_standalone"
    /\ IF libs_ok
       THEN /\ pc' = "auth"
            /\ UNCHANGED <<out, uncaught, exit_code>>
       ELSE /\ out' = Append(out, "ERROR: Failed to import Azure libraries")
            /\ Return(FALSE)
    /\ UNCHANGED <<Inputs, is_local_auth, is_local_auth_lc, in_azure,
                   azure_cli_available, project_client, agent_exists, calls>>

\* the same try block with a handler that reports the failure and goes on
\* as if the test had passed
DefaultProbeHandlerReturnsTrue(okmsg, failmsg) ==
    \E r \in ProbeOutcomes, c \in CallOutcomes :
       /\ calls' = calls
                     \o <<Call("DefaultAzureCredential", "default", "ok"),
                          Call("get_token", "default", r)>>
                     \o (IF r = "ok"
                         THEN <<Call("AIProjectClient", "default", c)>>
                         ELSE << >>)
       /\ IF r = "ok" /\ c = "ok"
          THEN /\ project_client' = "default"
               /\ out' = out \o okmsg
               /\ pc' = "api"
               /\ UNCHANGED <<uncaught, exit_code>>
          ELSE /\ out' = out \o failmsg
               /\ Return(TRUE)
               /\ UNCHANGED project_client

\* DefaultAzureCredential(); get_token(scope); AIProjectClient(...), all in
\* one try block whose handler returns False
DefaultProbe(okmsg, failmsg) ==
    \E r \in ProbeOutcomes, c \in CallOutcomes :
       /\ calls' = calls
                     \o <<Call("DefaultAzureCredential", "default", "ok"),
                          Call("get_token", "default", r)>>
                     \o (IF r = "ok"
                         THEN <<Call("AIProjectClient", "default", c)>>
                         ELSE << >>)
       /\ IF r = "ok" /\ c = "ok"
          THEN /\ project_client' = "default"
               /\ out' = out \o okmsg
               /\ pc' = "api"
               /\ UNCHANGED <<uncaught, exit_code>>
          ELSE /\ out' = out \o failmsg
               /\ Return(FALSE)
               /\ UNCHANGED project_client

TestFallback ==
    /\ pc = "fallback"
    /\ script = "test_auth_standalone"
    /\ DefaultProbe(<<"AzureCliCredential failed",
                      "Falling back to DefaultAzureCredential",
                      "AIProjectClient created with DefaultAzureCredential (fallback)">>,
                    <<"AzureCliCredential failed",
                      "Falling back to DefaultAzureCredential",
                      "DefaultAzureCredential also failed">>)
    /\ UNCHANGED <<Inputs, is_local_auth, is_local_auth_lc, in_azure,
                   azure_cli_available, agent_exists>>

TestDefault ==
    /\ pc = "auth"
    /\ script = "test_auth_standalone"
    /\ ~is_local_auth
    /\ DefaultProbe(<<"AIProjectClient created with DefaultAzureCredential">>,
                    <<"DefaultAzureCredential failed">>)
    /\ UNCHANGED <<Inputs, is_local_auth, is_local_auth_lc, in_azure,
                   azure_cli_available, agent_exists>>

\* the API test reporting success right after the create, with the
\* clean-up left out
ThreadCreateWithoutCleanup ==
    /\ pc = "api"
    /\ script = "test_auth_standalone"
    /\ project_client # "none"
    /\ \E r \in CallOutcomes :
          /\ calls' = Append(calls, Call("threads.create", project_client, r))
          /\ IF r = "ok"
             THEN /\ out' = out \o <<"Test thread created successfully",
                                     "ALL TESTS PASSED">>
                  /\ Return(TRUE)
             ELSE /\ out' = Append(out, "API call failed")
                  /\ Return(FALSE)
    /\ UNCHANGED <<Inputs, is_local_auth, is_local_auth_lc, in_azure,
                   azure_cli_available, project_client, agent_exists>>

\* project_client.agents.threads.create()
ThreadCreate ==
    /\ pc = "api"
    /\ script = "test_auth_standalone"
    /\ project_client # "none"
    /\ \E r \in CallOutcomes :
          /\ calls' = Append(calls, Call("threads.create", project_client, r))
          /\ IF r = "ok"
             THEN /\ out' = Append(out, "Test thread created successfully")
                  /\ pc' = "thread_delete"
                  /\ UNCHANGED <<uncaught, exit_code>>
             ELSE /\ out' = Append(out, "API call failed")
                  /\ Return(FALSE)
    /\ UNCHANGED <<Inputs, is_local_auth, is_local_auth_lc, in_azure,
                   azure_cli_available, project_client, agent_exists>>

\* project_client.agents.threads.delete(test_thread.id); return True
ThreadDelete ==
    /\ pc = "thread_delete"
    /\ script = "test_auth_standalone"
    /\ \E r \in CallOutcomes :
          /\ calls' = Append(calls, Call("threads.delete", project_client, r))
          /\ IF r = "ok"
             THEN /\ out' = out \o <<"Test thread deleted successfully",
                                     "ALL TESTS PASSED">>
                  /\ Return(TRUE)
             ELSE /\ out' = Append(out, "API call failed")
                  /\ Return(FALSE)
    /\ UNCHANGED <<Inputs, is_local_auth, is_local_auth_lc, in_azure,
                   azure_cli_available, project_client, agent_exists>>

----------------------------------------------------------------------------
(* The `az --version` subprocess of both diagnostic scripts *)

\* exit status 0, non-zero exit status, FileNotFoundError, TimeoutExpired
CliOutcomes == {"rc0", "rc_nonzero", "not_found", "timeout"}

\* check_azure_cli(): returncode == 0, and False on the caught exceptions
CheckAzureCli(r) == r = "rc0"

----------------------------------------------------------------------------
(* diagnose_auth.py *)

\* in_azure = any([...]) over the five indicators
InAzureDiagnose ==
    \/ Truthy("WEBSITE_HOSTNAME")
    \/ Truthy("CONTAINER_APP_NAME")
    \/ Truthy("AKS_NODE_NAME")
    \/ path_exists
    \/ Truthy("MSI_ENDPOINT")

\* is_local_auth = os.getenv("IS_LOCAL_AUTH", "").lower()
DiagnoseLocalAuth == Lower(Getenv("IS_LOCAL_AUTH", S_empty))

\* the test without its second disjunct
DiagnoseDefaultedEmptyOnly(lc) == Len(lc) = 0

\* not is_local_auth or is_local_auth == "false"
DiagnoseDefaulted(lc) == Len(lc) = 0 \/ lc = S_false

\* the "Recommendations:" block
DiagnoseRecommendations(az, lc, cli) ==
    IF az THEN
        IF lc = S_true THEN
            <<"ISSUE: IS_LOCAL_AUTH is set to 'true' but you're running in Azure",
              "FIX: Set IS_LOCAL_AUTH='false' or remove it entirely",
              "This will use DefaultAzureCredential with managed identity">>
        ELSE IF DiagnoseDefaulted(lc) THEN
            <<"GOOD: IS_LOCAL_AUTH is correctly configured for Azure deployment",
              "Using DefaultAzureCredential with managed identity">>
        ELSE
            <<"WARNING: Unexpected IS_LOCAL_AUTH value",
              "RECOMMENDATION: Set IS_LOCAL_AUTH='false' or remove it">>
    ELSE
        IF lc = S_true THEN
            IF cli THEN
                <<"GOOD: IS_LOCAL_AUTH is set for local development and Azure CLI is available",
                  "Using AzureCliCredential">>
            ELSE
                <<"ISSUE: IS_LOCAL_AUTH='true' but Azure CLI is not available",
                  "FIX: Install Azure CLI and run 'az login'",
                  "OR: Set IS_LOCAL_AUTH='false' to use DefaultAzureCredential">>
        ELSE IF DiagnoseDefaulted(lc) THEN
            <<"INFO: Using DefaultAzureCredential for local development",
              "TIP: Set IS_LOCAL_AUTH='true' if you want to use Azure CLI credentials">>
        ELSE
            <<"WARNING: Unexpected IS_LOCAL_AUTH value",
              "RECOMMENDATION: Set IS_LOCAL_AUTH='true' for local or 'false' for Azure">>

\* the "Quick Fix" block
DiagnoseQuickFix(az, lc, cli) ==
    IF az /\ lc = S_true THEN
        <<"Quick Fix for Azure Deployment:",
          "2. Add/Update: IS_LOCAL_AUTH = false",
          "Or remove IS_LOCAL_AUTH entirely to use the default (false)">>
    ELSE IF ~az /\ lc # S_true /\ cli THEN
        <<"Quick Fix for Local Development:",
          "1. Add to your .env file: IS_LOCAL_AUTH=true",
          "3. Ensure you're logged in: az login">>
    ELSE << >>

\* check_environment() up to the detection printout
DiagnoseDetect ==
    /\ pc = "start"
    /\ script = "diagnose_auth"
    /\ in_azure' = InAzureDiagnose
    /\ is_local_auth_lc' = DiagnoseLocalAuth
    /\ \E r \in CliOutcomes :
          /\ calls' = Append(calls, Call("az --version", "none", r))
          /\ azure_cli_available' = CheckAzureCli(r)
    /\ pc' = "recommend"
    /\ UNCHANGED <<Inputs, is_local_auth, project_client, agent_exists, out,
                   uncaught, exit_code>>

\* the rest of check_environment(); main() then returns normally
DiagnoseRecommend ==
    /\ pc = "recommend"
    /\ script = "diagnose_auth"
    /\ out' = out
                \o DiagnoseRecommendations(in_azure, is_local_auth_lc, azure_cli_available)
                \o DiagnoseQuickFix(in_azure, is_local_auth_lc, azure_cli_available)
    /\ Finish("0")
    /\ UNCHANGED <<Inputs, is_local_auth, is_local_auth_lc, in_azure,
                   azure_cli_available, project_client, agent_exists, calls>>

----------------------------------------------------------------------------
(* emergency_auth_diagnostic.py *)

\* the six-indicator test with IDENTITY_ENDPOINT left out
InAzureEmergencyFive ==
    \/ Truthy("WEBSITE_HOSTNAME")
    \/ Truthy("CONTAINER_APP_NAME")
    \/ Truthy("AKS_NODE_NAME")
    \/ Truthy("MSI_ENDPOINT")
    \/ path_exists

\* in_azure = any(azure_indicators.values()) over the six indicators
InAzureEmergency ==
    \/ Truthy("WEBSITE_HOSTNAME")
    \/ Truthy("CONTAINER_APP_NAME")
    \/ Truthy("AKS_NODE_NAME")
    \/ Truthy("MSI_ENDPOINT")
    \/ Truthy("IDENTITY_ENDPOINT")
    \/ path_exists

\* section 3 with the local-preference test taken before the platform test
EmergencyExpectedLocalFirst(az, local) ==
    IF local THEN
        <<"CORRECT: Should use AzureCliCredential locally">>
    ELSE IF az THEN
        <<"CORRECT: Should use DefaultAzureCredential">>
    ELSE
        <<"Local environment using DefaultAzureCredential">>

\* section 3, "EXPECTED BEHAVIOR"
EmergencyExpected(az, local) ==
    IF az /\ ~local THEN
        <<"CORRECT: Should use DefaultAzureCredential">>
    ELSE IF az /\ local THEN
        <<"PROBLEM: IS_LOCAL_AUTH=true in Azure - should be false or unset",
          "SOLUTION: Remove IS_LOCAL_AUTH or set to 'false' in Azure App Settings">>
    ELSE IF ~az /\ local THEN
        <<"CORRECT: Should use AzureCliCredential locally">>
    ELSE
        <<"Local environment using DefaultAzureCredential">>

\* section 4, the printout for each outcome of `az --version`
EmergencyCliReport(r) ==
    CASE r = "rc0"        -> <<"Azure CLI is available">>
      [] r = "rc_nonzero" -> <<"Azure CLI command failed">>
      [] r = "not_found"  -> <<"Azure CLI not found in PATH",
                               "This explains the 'Azure CLI not found on path' error!">>
      [] OTHER            -> <<"Azure CLI test failed">>

\* section 6, "RECOMMENDATIONS"
EmergencyRecommendations(az, local) ==
    IF az /\ local THEN
        <<"IMMEDIATE FIX NEEDED:",
          "2. Remove 'IS_LOCAL_AUTH' setting entirely",
          "OR set 'IS_LOCAL_AUTH = false'",
          "This will force the use of DefaultAzureCredential with managed identity">>
    ELSE IF az /\ ~local THEN
        <<"Configuration appears correct",
          "If still failing, check managed identity permissions">>
    ELSE
        <<"This appears to be a local development environment">>
        \o (IF local
            THEN <<"Ensure Azure CLI is installed and you're logged in: az login">>
            ELSE <<"Consider setting IS_LOCAL_AUTH=true for local development">>)

\* sections 1 to 3
EmergencyDetect ==
    /\ pc = "start"
    /\ script = "emergency_auth_diagnostic"
    /\ in_azure' = InAzureEmergency
    /\ is_local_auth' = IsLocalAuth
    /\ out' = out \o EmergencyExpected(InAzureEmergency, IsLocalAuth)
    /\ pc' = "cli_test"
    /\ UNCHANGED <<Inputs, is_local_auth_lc, azure_cli_available, project_client,
                   agent_exists, calls, uncaught, exit_code>>

\* section 4, run only when IS_LOCAL_AUTH parses to true
EmergencyCliTest ==
    /\ pc = "cli_test"
    /\ script = "emergency_auth_diagnostic"
    /\ IF is_local_auth
       THEN \E r \in CliOutcomes :
               /\ calls' = Append(calls, Call("az --version", "none", r))
               /\ out' = out \o EmergencyCliReport(r)
       ELSE UNCHANGED <<calls, out>>
    /\ pc' = "cred_test"
    /\ UNCHANGED <<Inputs, is_local_auth, is_local_auth_lc, in_azure,
                   azure_cli_available, project_client, agent_exists,
                   uncaught, exit_code>>

\* section 5: the AzureCliCredential probe (when local) and then the
\* DefaultAzureCredential probe, each in its own try block
EmergencyCredentialTest ==
    /\ pc = "cred_test"
    /\ script = "emergency_auth_diagnostic"
    /\ IF ~libs_ok
       THEN /\ out' = Append(out, "Cannot import Azure Identity libraries")
            /\ UNCHANGED calls
       ELSE \E l \in ProbeOutcomes, d \in ProbeOutcomes :
               LET local == IF is_local_auth
                            THEN <<Call("AzureCliCredential", "cli", "ok"),
                                   Call("get_token", "cli", l)>>
                            ELSE << >>
                   lmsg  == IF ~is_local_auth THEN << >>
                            ELSE IF l = "ok" THEN <<"AzureCliCredential: SUCCESS">>
                            ELSE IF l = "unavailable"
                            THEN <<"AzureCliCredential: failed",
                                   "This is the root cause of your error!">>
                            ELSE <<"AzureCliCredential: failed">>
                   dmsg  == IF d = "ok" THEN <<"DefaultAzureCredential: SUCCESS">>
                                        ELSE <<"DefaultAzureCredential: failed">>
               IN  /\ calls' = calls \o local
                                 \o <<Call("DefaultAzureCredential", "default", "ok"),
                                      Call("get_token", "default", d)>>
                   /\ out' = out \o lmsg \o dmsg
    /\ pc' = "recommend"
    /\ UNCHANGED <<Inputs, is_local_auth, is_local_auth_lc, in_azure,
                   azure_cli_available, project_client, agent_exists,
                   uncaught, exit_code>>

\* section 6; the script then ends normally
EmergencyRecommend ==
    /\ pc = "recommend"
    /\ script = "emergency_auth_diagnostic"
    /\ out' = out \o EmergencyRecommendations(in_azure, is_local_auth)
    /\ Finish("0")
    /\ UNCHANGED <<Inputs, is_local_auth, is_local_auth_lc, in_azure,
                   azure_cli_available, project_client, agent_exists, calls>>

----------------------------------------------------------------------------
(* The run of one script *)

Next ==
    \/ InitializerLoad
    \/ InitializerReadEnv
    \/ LocalProbe
    \/ LocalClient
    \/ InitializerFallback
    \/ InitializerDefault
    \/ GetAgent
    \/ UpdateAgent
    \/ CreateAgent
    \/ TestReadEnv
    \/ TestImport
    \/ TestFallback
    \/ TestDefault
    \/ ThreadCreate
    \/ ThreadDelete
    \/ DiagnoseDetect
    \/ DiagnoseRecommend
    \/ EmergencyDetect
    \/ EmergencyCliTest
    \/ EmergencyCredentialTest
    \/ EmergencyRecommend

Spec == Init /\ [][Next]_vars

TypeOK ==
    /\ script \in Scripts
    /\ pc \in {"start", "read_env", "import", "auth", "local_client", "fallback",
               "api", "upsert", "thread_delete", "cli_test", "cred_test",
               "recommend", "exited"}
    /\ is_local_auth \in BOOLEAN
    /\ in_azure \in BOOLEAN
    /\ project_client \in {"none", "cli", "default"}
    /\ exit_code \in {"running", "0", "1"}
    /\ (pc = "exited") <=> (exit_code # "running")

----------------------------------------------------------------------------
(* Vocabulary of the properties *)

\* the preference as the environment states it, spelled out value by value
EnvPrefersLocal ==
    env["IS_LOCAL_AUTH"] \in {Set(S_true), Set(S_True), Set(S_TRUE)}

Exited == pc = "exited"

CallMade(op, cred, res) == \E i \in 1..Len(calls) : calls[i] = Call(op, cred, res)

LocalProbeFailed ==
    \E i \in 1..Len(calls) :
        calls[i].op = "get_token" /\ calls[i].cred = "cli" /\ calls[i].res # "ok"

LocalProbeSucceeded == CallMade("get_token", "cli", "ok")

ApiOps == {"get_agent", "update_agent", "create_agent",
           "threads.create", "threads.delete"}

ApiCallMade == \E i \in 1..Len(calls) : calls[i].op \in ApiOps

NetworkCallMade == \E i \in 1..Len(calls) : calls[i].op \in NetworkOps

\* the script is at, or has been through, its agent or thread API calls
ReachedApi == pc \in {"api", "upsert", "thread_delete"} \/ ApiCallMade

Printed(msgs) == \E i \in 1..Len(out) : out[i] \in msgs

CorrectMsgs ==
    {"GOOD: IS_LOCAL_AUTH is correctly configured for Azure deployment",
     "GOOD: IS_LOCAL_AUTH is set for local development and Azure CLI is available",
     "CORRECT: Should use DefaultAzureCredential",
     "CORRECT: Should use AzureCliCredential locally",
     "Configuration appears correct"}

ProblemMsgs ==
    {"ISSUE: IS_LOCAL_AUTH is set to 'true' but you're running in Azure",
     "ISSUE: IS_LOCAL_AUTH='true' but Azure CLI is not available",
     "PROBLEM: IS_LOCAL_AUTH=true in Azure - should be false or unset",
     "IMMEDIATE FIX NEEDED:"}

WarningMsgs == {"WARNING: Unexpected IS_LOCAL_AUTH value"}

\* remediation lines that tell the user to switch the preference off and
\* name the IS_LOCAL_AUTH flag
DisableRemedies ==
    {"FIX: Set IS_LOCAL_AUTH='false' or remove it entirely",
     "OR: Set IS_LOCAL_AUTH='false' to use DefaultAzureCredential",
     "2. Add/Update: IS_LOCAL_AUTH = false",
     "Or remove IS_LOCAL_AUTH entirely to use the default (false)",
     "SOLUTION: Remove IS_LOCAL_AUTH or set to 'false' in Azure App Settings",
     "2. Remove 'IS_LOCAL_AUTH' setting entirely",
     "OR set 'IS_LOCAL_AUTH = false'"}

InstallRemedies ==
    {"FIX: Install Azure CLI and run 'az login'",
     "Ensure Azure CLI is installed and you're logged in: az login"}

DefaultInfoMsgs ==
    {"INFO: Using DefaultAzureCredential for local development",
     "Local environment using DefaultAzureCredential"}

EnableTips ==
    {"TIP: Set IS_LOCAL_AUTH='true' if you want to use Azure CLI credentials",
     "Consider setting IS_LOCAL_AUTH=true for local development"}

\* the `az --version` subprocess ran and did not exit with status 0
CliUnavailable ==
    \E i \in 1..Len(calls) : calls[i].op = "az --version" /\ calls[i].res # "rc0"

\* a platform signal that is an environment variable counts when it is set
\* to a non-empty value
SignalOn(v) == env[v].isSet /\ env[v].val # S_empty

FiveSignals ==
    \/ SignalOn("WEBSITE_HOSTNAME")
    \/ SignalOn("CONTAINER_APP_NAME")
    \/ SignalOn("AKS_NODE_NAME")
    \/ path_exists
    \/ SignalOn("MSI_ENDPOINT")

----------------------------------------------------------------------------
(* C1 *)

\* no client construction failed and no required variable was found missing
NoConstructionOrConfigFailure ==
    /\ uncaught # "KeyError"
    /\ \A i \in 1..Len(calls) :
          calls[i].op = "AIProjectClient" => calls[i].res = "ok"

\* C1 as stated: once the local probe has failed, the error is never
\* propagated and every such run goes on to the agent/thread API calls with
\* a client built on the platform-default credential (runs that stop on a
\* failed client construction or a missing variable are left aside).
C1_AsClaimed ==
    (script \in Resolvers /\ LocalProbeFailed /\ Exited
        /\ NoConstructionOrConfigFailure) =>
        /\ uncaught \notin {"unavailable", "error"}
        /\ project_client = "default"
        /\ ApiCallMade

\* C1, amended: when the local preference is on and the local token probe
\* fails with either kind of exception, the script constructs a
\* DefaultAzureCredential next, the probe's error never leaves the script,
\* no client is ever built on the local credential, and once the
\* platform-default client has been constructed the run is at the API stage
\* with that client and every API call is made with it.
C1_FallbackOnLocalFailure ==
    (script \in Resolvers /\ LocalProbeFailed) =>
        /\ EnvPrefersLocal
        /\ uncaught \notin {"unavailable", "error"}
        /\ project_client \in {"none", "default"}
        /\ pc # "fallback" =>
              \E i \in 1..(Len(calls) - 1) :
                  /\ calls[i].op = "get_token" /\ calls[i].cred = "cli"
                  /\ calls[i + 1].op = "DefaultAzureCredential"
        /\ CallMade("AIProjectClient", "default", "ok") =>
              /\ project_client = "default"
              /\ pc \in {"api", "upsert", "thread_delete", "exited"}
        /\ \A i \in 1..Len(calls) :
              calls[i].op \in ApiOps => calls[i].cred = "default"

C1_Witness ==
    /\ script \in Resolvers
    /\ CallMade("get_token", "cli", "error")
    /\ project_client = "default"
    /\ ApiCallMade
    /\ exit_code = "0"

----------------------------------------------------------------------------
(* C2 *)

\* C2 as stated: once the local probe has succeeded, DefaultAzureCredential
\* is never invoked in that run and the client in use at the API stage is
\* built on the local credential.
C2_AsClaimed ==
    (script \in Resolvers /\ EnvPrefersLocal /\ LocalProbeSucceeded) =>
        /\ ~CallMade("DefaultAzureCredential", "default", "ok")
        /\ ReachedApi => project_client = "cli"

----------------------------------------------------------------------------
(* C3 *)

\* C3: when IS_LOCAL_AUTH is unset or its lowercase form is not "true", no
\* AzureCliCredential is constructed and no local token probe is issued at
\* any point of the run, and the client, once built, is built on
\* DefaultAzureCredential.
C3_NoLocalAttemptWhenNotPreferred ==
    (script \in Resolvers /\ ~EnvPrefersLocal) =>
        /\ \A i \in 1..Len(calls) : calls[i].cred # "cli"
        /\ project_client \in {"none", "default"}
        /\ ReachedApi =>
              /\ project_client = "default"
              /\ CallMade("DefaultAzureCredential", "default", "ok")

C3_Witness ==
    /\ script \in Resolvers
    /\ env["IS_LOCAL_AUTH"] = Set(S_yes)
    /\ project_client = "default"
    /\ ApiCallMade
    /\ exit_code = "0"

----------------------------------------------------------------------------
(* C4 *)

\* the initializer had its endpoint, model name, prompt and libraries and
\* no credential or remote call of the run failed fatally
NothingElseWrong ==
    /\ libs_ok
    /\ prompt_exists
    /\ env["AZURE_AI_AGENT_ENDPOINT"].isSet
    /\ env["AZURE_AI_AGENT_MODEL_DEPLOYMENT_NAME"].isSet
    /\ uncaught \notin {"platform_default", "remote"}

\* C4 as stated: a finished initializer run has called update_agent and not
\* create_agent when the agent id variable is set and non-empty, and
\* create_agent and not update_agent when it is unset or empty.
C4_AsClaimed ==
    (script \in Initializers /\ Exited /\ NothingElseWrong) =>
        IF script \in Upserters /\ SignalOn(AgentVar(script))
        THEN Made(calls, "update_agent") /\ ~Made(calls, "create_agent")
        ELSE Made(calls, "create_agent") /\ ~Made(calls, "update_agent")

----------------------------------------------------------------------------
(* C5 *)

RequiredVarUnset ==
    \/ ~env["AZURE_AI_AGENT_ENDPOINT"].isSet
    \/ script \in Initializers /\ ~env["AZURE_AI_AGENT_MODEL_DEPLOYMENT_NAME"].isSet

\* the run stopped on the missing variable: the KeyError of os.environ[...]
\* in the initializers, the printed error of test_authentication
AbortedOnMissingVar ==
    /\ Exited
    /\ \/ uncaught = "KeyError"
       \/ Printed({"ERROR: AZURE_AI_AGENT_ENDPOINT is not set"})

\* C5 as stated: when a required environment variable is unset and the run
\* aborts on it, no token probe and no agent or thread call has been made
\* before the abort.
C5_AsClaimed ==
    (script \in Resolvers /\ RequiredVarUnset /\ AbortedOnMissingVar) =>
        ~NetworkCallMade

----------------------------------------------------------------------------
(* C6 *)

ProbeOrThreadCallFailed ==
    \E i \in 1..Len(calls) :
        /\ calls[i].op \in {"get_token", "threads.create", "threads.delete"}
        /\ calls[i].res # "ok"

\* C6 as stated: the test script exits 1 whenever any token probe or any
\* thread call of the run failed.
C6_AsClaimed ==
    (script = "test_auth_standalone" /\ Exited /\ ProbeOrThreadCallFailed) =>
        exit_code = "1"

\* the last token probe of the run succeeded
LastProbeOk ==
    \E i \in 1..Len(calls) :
        /\ calls[i].op = "get_token" /\ calls[i].res = "ok"
        /\ \A j \in (i + 1)..Len(calls) : calls[j].op # "get_token"

PlatformOrThreadCallFailed ==
    \E i \in 1..Len(calls) :
        /\ calls[i].res # "ok"
        /\ \/ calls[i].op = "get_token" /\ calls[i].cred = "default"
           \/ calls[i].op \in {"threads.create", "threads.delete"}

\* C6, amended: the test script exits 0 exactly when the last token probe
\* of the run succeeded, a client was constructed on that credential, and
\* the thread create and the thread delete both succeeded; otherwise it
\* exits 1. A failed platform-default probe or thread call always gives 1;
\* a failed local probe that the fallback recovers does not.
C6_ExitStatus ==
    (script = "test_auth_standalone" /\ Exited) =>
        /\ exit_code \in {"0", "1"}
        /\ (exit_code = "0") =
              (/\ LastProbeOk
               /\ project_client # "none"
               /\ CallMade("AIProjectClient", project_client, "ok")
               /\ CallMade("threads.create", project_client, "ok")
               /\ CallMade("threads.delete", project_client, "ok"))
        /\ PlatformOrThreadCallFailed => exit_code = "1"

C6_Witness ==
    /\ script = "test_auth_standalone"
    /\ Exited
    /\ LocalProbeFailed
    /\ exit_code = "0"

----------------------------------------------------------------------------
(* C7 *)

\* C7 as stated: in both diagnostic scripts in_azure is true exactly when
\* one of the five listed signals is on.
C7_AsClaimed ==
    (script \in Diagnostics /\ pc # "start") => (in_azure = FiveSignals)

\* C7, amended: in diagnose_auth in_azure is true exactly when one of the
\* five listed signals is on; in emergency_auth_diagnostic exactly when one
\* of those five or IDENTITY_ENDPOINT is on. An environment signal is on
\* when the variable is set to a non-empty value.
C7_InAzure ==
    /\ (script = "diagnose_auth" /\ pc # "start") => (in_azure = FiveSignals)
    /\ (script = "emergency_auth_diagnostic" /\ pc # "start") =>
          (in_azure = (FiveSignals \/ SignalOn("IDENTITY_ENDPOINT")))

C7_Witness ==
    /\ script = "emergency_auth_diagnostic"
    /\ pc # "start"
    /\ ~FiveSignals
    /\ SignalOn("IDENTITY_ENDPOINT")
    /\ in_azure

----------------------------------------------------------------------------
(* C8 *)

\* C8 as stated: outside Azure, with the local preference on and the Azure
\* CLI unavailable, the finished diagnostic has reported a problem with a
\* remedy (install / log in, or disable the preference) and has not
\* reported the configuration as correct.
C8_AsClaimed ==
    (script \in Diagnostics /\ Exited /\ ~in_azure /\ EnvPrefersLocal
        /\ CliUnavailable) =>
        /\ Printed(ProblemMsgs)
        /\ Printed(InstallRemedies \cup DisableRemedies)
        /\ ~Printed(CorrectMsgs)

----------------------------------------------------------------------------
(* C9 *)

\* C9 as stated: outside Azure with the local preference off (as the
\* resolver parses it), the finished diagnostic has printed the
\* default-credential information or the tip and no problem or warning.
C9_AsClaimed ==
    (script \in Diagnostics /\ Exited /\ ~in_azure /\ ~EnvPrefersLocal) =>
        /\ Printed(DefaultInfoMsgs \cup EnableTips)
        /\ ~Printed(ProblemMsgs \cup WarningMsgs)

\* IS_LOCAL_AUTH is unset, empty, or spells "false" in some letter case
EnvSaysDefault ==
    env["IS_LOCAL_AUTH"] \in {Unset, Set(S_empty), Set(S_false), Set(S_False)}

\* C9, amended: outside Azure with the local preference off,
\* emergency_auth_diagnostic always prints the default-credential
\* information and the tip, and no problem or warning; diagnose_auth does so
\* when IS_LOCAL_AUTH is unset, empty or "false" in any letter case, and for
\* any other value prints the "unexpected value" warning instead.
C9_AcceptableDefault ==
    (script \in Diagnostics /\ Exited /\ ~in_azure /\ ~EnvPrefersLocal) =>
        /\ ~Printed(ProblemMsgs)
        /\ ~Printed(CorrectMsgs)
        /\ IF script = "emergency_auth_diagnostic" \/ EnvSaysDefault
           THEN /\ Printed(DefaultInfoMsgs)
                /\ Printed(EnableTips)
                /\ ~Printed(WarningMsgs)
           ELSE /\ Printed(WarningMsgs)
                /\ ~Printed(DefaultInfoMsgs \cup EnableTips)

C9_Witness ==
    /\ script = "diagnose_auth"
    /\ Exited
    /\ ~in_azure
    /\ env["IS_LOCAL_AUTH"] = Set(S_False)
    /\ Printed(DefaultInfoMsgs)
    /\ Printed(EnableTips)

----------------------------------------------------------------------------
(* C10 *)

\* C10: inside Azure with the local preference on, neither diagnostic ever
\* reports the configuration as correct, and the finished diagnostic has
\* reported a problem together with a remedy that tells the user to switch
\* the preference off and names IS_LOCAL_AUTH.
C10_MisconfiguredInAzure ==
    (script \in Diagnostics /\ pc # "start" /\ in_azure /\ EnvPrefersLocal) =>
        /\ ~Printed(CorrectMsgs)
        /\ Exited => (Printed(ProblemMsgs) /\ Printed(DisableRemedies))
        /\ script = "emergency_auth_diagnostic" =>
              (Printed(ProblemMsgs) /\ Printed(DisableRemedies))

C10_Witness ==
    /\ script \in Diagnostics
    /\ Exited
    /\ in_azure
    /\ env["IS_LOCAL_AUTH"] = Set(S_TRUE)
    /\ Printed(ProblemMsgs)
    /\ Printed(DisableRemedies)

----------------------------------------------------------------------------
(* C11 *)

\* the platform-default strategy failed: its token probe, or the
\* construction of the client on it, raised
PlatformDefaultFailed ==
    \E i \in 1..Len(calls) :
        /\ calls[i].cred = "default"
        /\ calls[i].op \in {"get_token", "AIProjectClient"}
        /\ calls[i].res # "ok"

\* C11 as stated: when the platform-default strategy fails, the failure
\* leaves the script uncaught, the process ends with a non-zero status and
\* no agent or thread call is made.
C11_AsClaimed ==
    (script \in Resolvers /\ PlatformDefaultFailed) =>
        /\ Exited
        /\ uncaught # "none"
        /\ exit_code = "1"
        /\ ~ApiCallMade

\* C11, amended: when the platform-default strategy fails, directly or
\* after fallback, the run ends at once with exit status 1, with no client
\* and without any agent or thread call; the failed call is the last call
\* of the run. In the three initializers the failure leaves the script
\* uncaught; in test_auth_standalone it is caught, reported, and
\* test_authentication returns False.
C11_PlatformDefaultFailureFatal ==
    (script \in Resolvers /\ PlatformDefaultFailed) =>
        /\ Exited
        /\ exit_code = "1"
        /\ project_client = "none"
        /\ ~ApiCallMade
        /\ calls[Len(calls)].cred = "default" /\ calls[Len(calls)].res # "ok"
        /\ IF script = "test_auth_standalone"
           THEN /\ uncaught = "none"
                /\ Printed({"DefaultAzureCredential failed",
                            "DefaultAzureCredential also failed"})
           ELSE uncaught = "platform_default"

C11_Witness ==
    /\ script = "test_auth_standalone"
    /\ LocalProbeFailed
    /\ CallMade("get_token", "default", "unavailable")
    /\ Exited
    /\ exit_code = "1"

C11_WitnessInitializer ==
    /\ script \in Initializers
    /\ PlatformDefaultFailed
    /\ uncaught = "platform_default"

----------------------------------------------------------------------------
(* C12 *)

IsProbe(c) == c.op = "get_token"

IsApiCall(c) == c.op \in ApiOps

\* the token probes of the run, in order, by credential
ProbeCreds ==
    LET ps == SelectSeq(calls, IsProbe)
    IN  [i \in 1..Len(ps) |-> ps[i].cred]

\* the agent and thread calls of the run, in order, by operation
ApiSequence ==
    LET as == SelectSeq(calls, IsApiCall)
    IN  [i \in 1..Len(as) |-> as[i].op]

\* C12 as stated: no run issues more than one token probe.
C12_AsClaimed == Len(ProbeCreds) <= 1

\* C12, amended: a run issues at most two token probes, at most one per
\* credential and the local one first; the initializers issue at most one
\* (the local probe) and diagnose_auth none; two probes happen only in
\* test_auth_standalone and emergency_auth_diagnostic with the local
\* preference on. A run executes at most one API call sequence: get_agent
\* then update_agent, or create_agent, or thread create then thread delete.
C12_ProbesAndApiSequence ==
    /\ ProbeCreds \in {<< >>, <<"cli">>, <<"default">>, <<"cli", "default">>}
    /\ script \in Initializers => ProbeCreds \in {<< >>, <<"cli">>}
    /\ script = "diagnose_auth" => ProbeCreds = << >>
    /\ Len(ProbeCreds) > 1 =>
          /\ script \in {"test_auth_standalone", "emergency_auth_diagnostic"}
          /\ EnvPrefersLocal
    /\ ApiSequence \in {<< >>,
                        <<"get_agent">>,
                        <<"get_agent", "update_agent">>,
                        <<"create_agent">>,
                        <<"threads.create">>,
                        <<"threads.create", "threads.delete">>}

C12_Witness ==
    /\ script = "test_auth_standalone"
    /\ ProbeCreds = <<"cli", "default">>
    /\ ApiSequence = <<"threads.create", "threads.delete">>
    /\ exit_code = "0"

----------------------------------------------------------------------------
(* C13 *)

\* C13: test_authentication returns True (exit status 0) only after, in
\* this order, a successful token probe of a credential, the construction
\* of the client on that credential, a successful thread create with that
\* client and a successful thread delete with it; and whenever the thread
\* create has succeeded, the delete is the very next call, made before the
\* function returns. The run creates a single thread, test_thread, and the
\* delete is the call on its id.
C13_TrueOnlyAfterThreadRoundTrip ==
    script = "test_auth_standalone" =>
        /\ exit_code = "0" =>
              \E i, j, k, l \in 1..Len(calls) :
                  /\ i < j /\ j < k /\ k < l /\ l = Len(calls)
                  /\ calls[i] = Call("get_token", project_client, "ok")
                  /\ calls[j] = Call("AIProjectClient", project_client, "ok")
                  /\ calls[k] = Call("threads.create", project_client, "ok")
                  /\ calls[l] = Call("threads.delete", project_client, "ok")
        /\ \A k \in 1..Len(calls) :
              (calls[k].op = "threads.create" /\ calls[k].res = "ok") =>
                  /\ ~Exited => (pc = "thread_delete" /\ k = Len(calls))
                  /\ Exited =>
                        /\ k + 1 = Len(calls)
                        /\ calls[k + 1].op = "threads.delete"
                        /\ calls[k + 1].cred = calls[k].cred
        /\ Printed({"ALL TESTS PASSED"}) => exit_code = "0"

C13_Witness ==
    /\ script = "test_auth_standalone"
    /\ exit_code = "0"
    /\ project_client = "cli"
    /\ CallMade("threads.delete", "cli", "ok")

C13_WitnessDeleteFailed ==
    /\ script = "test_auth_standalone"
    /\ CallMade("threads.create", "default", "ok")
    /\ CallMade("threads.delete", "default", "error")
    /\ exit_code = "1"

====
